---- MODULE Spec2Model ----
(***************************************************************************)
(* A model of the cpput unit-testing harness.                              *)
(*                                                                         *)
(* Two header variants exist in the repository:                            *)
(*   "cpput" : src/TestHarness.hpp        (namespace cpput, ResultWriter)  *)
(*   "unit"  : src/cpput/TestHarness.hpp  (namespace test::unit,           *)
(*                                         IOutputter)                     *)
(* The variable `variant` says which header the test program was compiled  *)
(* against.  A test program is a list of test units (TEST / TEST_F), each  *)
(* with a body that is a list of statements; the units register themselves *)
(* during static initialisation, then main() builds a writer and runs all  *)
(* registered units.                                                       *)
(***************************************************************************)
EXTENDS Integers, Sequences, FiniteSets, TLC

(***************************************************************************)
(* Bounds of the model.                                                    *)
(***************************************************************************)
MaxUnits == 3          \* test units declared by the test program
MaxStmts == 2          \* statements of the test program, all bodies together
MaxIndeterminate == 1  \* an uninitialised int reads as one of 0..MaxIndeterminate
MaxVal == 2            \* the numbers compared by ASSERT_EQ and ASSERT_NEAR lie
                       \* in -MaxVal..MaxVal

VARIABLES
  variant,          \* which header the program includes: "cpput" or "unit"
  macro,            \* the macro the test file declares its units with:
                    \* "TEST" or "TEST_F"
  tests_,           \* Repository::tests_ / cases_ : head of the chain, 0 = null
  test_unit_next_,  \* Test::test_unit_next_ of every constructed unit, 0 = null
  body,             \* the statements of every unit's do_run body
  dupAdd,           \* a unit was handed to Repository::add a second time
  args,             \* argv[1..argc-1] of main
  pc,               \* position of the main thread
  writer,           \* the ResultWriter / IOutputter object of the run
  c,                \* runAllTests: the cursor `c`
  exc,              \* the exception that left Test::run, if any
  trace,            \* in order: the calls received by the writer (startTest,
                    \* failure, endTest) and the steps of the units (do_run,
                    \* fixture, stmt, fixture_end)
  out,              \* what was written to std::cout, in order
  ret,              \* value returned by runAllTests / Runner::do_run
  first             \* when the Runner is called a second time: what its
                    \* first call returned and the log of that call

vars == <<variant, macro, tests_, test_unit_next_, body, dupAdd, args, pc,
          writer, c, exc, trace, out, ret, first>>

registryVars == <<tests_, test_unit_next_, body, dupAdd>>
runVars == <<args, pc, writer, c, exc, trace, out, ret, first>>

Null == 0
NoWriter == [class |-> "none"]
NoExc == [thrown |-> "none"]
NoRun == [done |-> FALSE]

(***************************************************************************)
(* Test bodies.  A statement is an assertion macro applied to an           *)
(* expression of known value, or a throw.                                  *)
(***************************************************************************)
\* e.what() of a thrown std::exception: the empty description, which gives
\* the shortest message the handler can build
Whats == {""}

Stmts ==
  [op : {"ASSERT_TRUE"}, expr : BOOLEAN]
    \cup [op : {"throw_std"}, what : Whats]
    \cup [op : {"throw_other"}]

(***************************************************************************)
(* The operands of ASSERT_EQ and ASSERT_NEAR are doubles: NaN, or a number *)
(* of a grid on which the subtraction of two operands is exact.            *)
(***************************************************************************)
NaN == [nan |-> TRUE, v |-> 0]
D(n) == [nan |-> FALSE, v |-> n]
Doubles == {D(n) : n \in (0 - MaxVal)..MaxVal} \cup {NaN}

\* operator== of double
DoubleEq(x, y) == ~x.nan /\ ~y.nan /\ x.v = y.v
\* operator> of double
DoubleGt(x, y) == ~x.nan /\ ~y.nan /\ x.v > y.v
\* binary and unary operator- of double
DoubleSub(x, y) == IF x.nan \/ y.nan THEN NaN ELSE D(x.v - y.v)
DoubleNeg(x) == IF x.nan THEN NaN ELSE D(0 - x.v)
\* operator<<(std::ostream&, double)
DoubleText(x) == IF x.nan THEN "nan" ELSE ToString(x.v)

\* the assertions of both headers over operands of known value
AssertStmts ==
  [op : {"ASSERT_TRUE", "ASSERT_FALSE"}, expr : BOOLEAN]
    \cup [op : {"ASSERT_EQ"}, expected : Doubles, actual : Doubles]
    \cup [op : {"ASSERT_NEAR"}, expected : Doubles, actual : Doubles,
          epsilon : Doubles]

RECURSIVE SeqsUpTo(_, _)
SeqsUpTo(S, n) ==
  IF n = 0 THEN {<<>>}
  ELSE LET shorter == SeqsUpTo(S, n - 1)
       IN shorter \cup {Append(s, x) : s \in shorter, x \in S}

RECURSIVE SumLen(_)
SumLen(bodies) ==
  IF bodies = <<>> THEN 0 ELSE Len(Head(bodies)) + SumLen(Tail(bodies))

\* #expression : the source text of the asserted expression
ExprText(b) == IF b THEN "true" ELSE "false"

\* __FILE__ and __LINE__ at an assertion of the test program
TestFile == "Test.cpp"
LineOf(unit, index) == 10 * unit + index

\* __FILE__ of the header
HeaderFile == "TestHarness.hpp"


(***************************************************************************)
(* The writers.  A writer operation takes the sink                         *)
(*   s = [w |-> the writer object, out |-> std::cout, trace |-> the log]   *)
(* and returns the sink after the call.  Every write to std::cout is one   *)
(* token [by |-> the writing method, text |-> the characters written].     *)
(***************************************************************************)
Wr(by, text) == [by |-> by, text |-> text]

\* static_cast<float>(std::clock()-startTime_)/CLOCKS_PER_SEC : not a
\* function of the model's state; written as an opaque token
ElapsedText == "0"

IsText(w) == w.class \in {"TextResultWriter", "TextOutputter"}
IsXml(w) == w.class \in {"XmlResultWriter", "XmlOutputter"}

\* struct Failure of the "unit" header
Failure(filename, line, message) ==
  [type_ |-> "Failure", filename_ |-> filename, line_ |-> line,
   message_ |-> message]

\* operator<<(std::ostream&, const Failure&)
FailureText(f) ==
  f.filename_ \o ", line " \o ToString(f.line_) \o ": " \o f.message_

\* TextResultWriter::TextResultWriter
TextResultWriterCtor == 
  [class |-> "TextResultWriter", testCount_ |-> 0, failures_ |-> 0]

\* TextOutputter::TextOutputter
TextOutputterCtor == 
  [class |-> "TextOutputter", testCount_ |-> 0, failures_ |-> <<>>]

\* XmlResultWriter::XmlResultWriter (the object; the constructor's output
\* is XmlCtorOut)
XmlResultWriterCtor == 
  [class |-> "XmlResultWriter", failureCount_ |-> 0]

\* XmlOutputter::XmlOutputter : the initialiser list names startTime_ only,
\* failureCount_ is left uninitialised and holds an indeterminate value g
XmlOutputterCtor(g) == 
  [class |-> "XmlOutputter", failureCount_ |-> g]

XmlCtorOut ==
  << Wr("ctor", "<?xml version=\"1.0\" encoding=\"UTF-8\"?>\n"),
     Wr("ctor", "<testsuite>\n") >>

\* the characters endTest of a text writer sends to std::cout
TextEndTestCharAlwaysDot(success) == "."
TextEndTestChar(success) == IF success THEN "." ELSE "F"

\* ResultWriter::getNumberOfFailures / IOutputter::getNumberOfFailures
GetNumberOfFailures(w) ==
  CASE w.class = "TextResultWriter" -> w.failures_
    [] w.class = "TextOutputter" -> Len(w.failures_)
    [] w.class = "XmlResultWriter" -> w.failureCount_
    [] w.class = "XmlOutputter" -> w.failureCount_

\* XmlResultWriter::startTest / XmlOutputter::startTest : what it writes;
\* every unit is of class "C" and unit u is named "N<u>"
TestcaseOpenText(unit) ==
  "  <testcase classname=\"C\" name=\"N" \o ToString(unit) \o "\" time=\""

\* startTest(className, name); the unit stands for its (className, name)
WStartTestCountsNothing(s, unit) ==
  LET ev == [ev |-> "startTest", unit |-> unit]
      o2 == IF IsXml(s.w)
            THEN Append(s.out, Wr("startTest", TestcaseOpenText(unit)))
            ELSE s.out
  IN [w |-> s.w, out |-> o2, trace |-> Append(s.trace, ev)]
WStartTest(s, unit) ==
  LET ev == [ev |-> "startTest", unit |-> unit]
      w2 == IF IsText(s.w)
            THEN [s.w EXCEPT !.testCount_ = @ + 1]
            ELSE s.w
      o2 == IF IsXml(s.w)
            THEN Append(s.out, Wr("startTest", TestcaseOpenText(unit)))
            ELSE s.out
  IN [w |-> w2, out |-> o2, trace |-> Append(s.trace, ev)]

\* endTest(success)
WEndTestAlwaysSelfCloses(s, success) ==
  LET ev == [ev |-> "endTest", success |-> success]
      o2 == IF IsText(s.w)
            THEN Append(s.out, Wr("endTest", TextEndTestChar(success)))
            ELSE s.out \o << Wr("endTest", ElapsedText \o "\""),
                             Wr("endTest", "/>\n") >>
  IN [w |-> s.w, out |-> o2, trace |-> Append(s.trace, ev)]
WEndTest(s, success) ==
  LET ev == [ev |-> "endTest", success |-> success]
      o2 == IF IsText(s.w)
            THEN Append(s.out, Wr("endTest", TextEndTestChar(success)))
            ELSE IF success
                 THEN s.out \o << Wr("endTest", ElapsedText \o "\""),
                                  Wr("endTest", "/>\n") >>
                 ELSE Append(s.out, Wr("endTest", "  </testcase>\n"))
  IN [w |-> s.w, out |-> o2, trace |-> Append(s.trace, ev)]

\* failure(filename, line, message) / failure(const Failure&)
WFailure(s, filename, line, message) ==
  LET ev == [ev |-> "failure", filename |-> filename, line |-> line,
             message |-> message]
      f == Failure(filename, line, message)
      w2 == CASE s.w.class = "TextResultWriter" ->
                   [s.w EXCEPT !.failures_ = @ + 1]
              [] s.w.class = "TextOutputter" ->
                   [s.w EXCEPT !.failures_ = Append(@, f)]
              [] IsXml(s.w) ->
                   [s.w EXCEPT !.failureCount_ = @ + 1]
      o2 == CASE s.w.class = "TextResultWriter" ->
                   Append(s.out, Wr("failure",
                     "Failure: " \o filename \o ", line " \o ToString(line)
                       \o ": " \o message \o "\n"))
              [] s.w.class = "TextOutputter" -> s.out
              [] s.w.class = "XmlResultWriter" ->
                   s.out \o << Wr("failure", ElapsedText \o "\""),
                               Wr("failure", ">\n    <failure>" \o message
                                 \o " in " \o filename \o ", line "
                                 \o ToString(line) \o "</failure>\n") >>
              [] s.w.class = "XmlOutputter" ->
                   s.out \o << Wr("failure", ElapsedText \o "\""),
                               Wr("failure", ">\n    <failure type=\""
                                 \o f.type_ \o "\">" \o f.message_
                                 \o " in " \o f.filename_ \o ", line "
                                 \o ToString(f.line_) \o "</failure>\n") >>
  IN [w |-> w2, out |-> o2, trace |-> Append(s.trace, ev)]

RECURSIVE FailureLines(_)
FailureLines(fs) ==
  IF fs = <<>> THEN <<>>
  ELSE << Wr("dtor", FailureText(Head(fs)) \o "\n") >> \o FailureLines(Tail(fs))

\* ~TextResultWriter / ~TextOutputter / ~XmlResultWriter / ~XmlOutputter :
\* what the destructor writes
WDtorOut(w) ==
  CASE w.class = "TextResultWriter" ->
         IF w.failures_ = 0
         THEN << Wr("dtor", "\nAll tests pass.\n") >>
         ELSE << Wr("dtor", "\n" \o ToString(w.failures_) \o " out of "
                   \o ToString(w.testCount_) \o " tests failed.\n") >>
    [] w.class = "TextOutputter" ->
         IF w.failures_ = <<>>
         THEN << Wr("dtor", "\n"), Wr("dtor", "All tests pass.\n") >>
         ELSE << Wr("dtor", "\n"), Wr("dtor", "\n") >>
                \o FailureLines(w.failures_)
                \o << Wr("dtor", "\n" \o ToString(Len(w.failures_))
                        \o " out of " \o ToString(w.testCount_)
                        \o " tests failed.\n") >>
    [] IsXml(w) -> << Wr("dtor", "</testsuite>\n") >>

(***************************************************************************)
(* struct Result : the scoped object of one unit's execution.              *)
(***************************************************************************)
\* Result::Result : pass_(true), out_.startTest(...)
ResultCtor(s, unit) == WStartTest(s, unit)

\* Result::~Result : out_.endTest(pass_)
ResultDtorOnlyOnPass(s, pass) == IF pass THEN WEndTest(s, pass) ELSE s
ResultDtor(s, pass) == WEndTest(s, pass)

\* Result::addFailure : the value it leaves in pass_
AddFailurePassKept(pass) == pass
AddFailurePass(pass) == FALSE

\* Result::addFailure(filename, line, message) : out_.failure(...)
AddFailure(s, filename, line, message) == WFailure(s, filename, line, message)


(***************************************************************************)
(* class Repository : the intrusive chain of registered units.             *)
(***************************************************************************)
\* Repository::add, the loop `while (tmp->test_unit_next_) tmp = ...` :
\* the unit the loop stops at, or Null when it has not stopped after `fuel`
\* iterations (on a cyclic chain it never stops)
RECURSIVE LastOf(_, _, _)
LastOf(tmp, nxt, fuel) ==
  IF nxt[tmp] = Null THEN tmp
  ELSE IF fuel = 0 THEN Null
  ELSE LastOf(nxt[tmp], nxt, fuel - 1)

\* Repository::add(tc) on head `head` and links `nxt`: whether the call
\* returns, and the head and links it leaves
RepositoryAddAsFirst(head, nxt, tc) ==
  [returns |-> TRUE, tests_ |-> tc, next |-> [nxt EXCEPT ![tc] = head]]
RepositoryAddCircular(head, nxt, tc) ==
  IF head = Null
  THEN [returns |-> TRUE, tests_ |-> tc, next |-> nxt]
  ELSE LET tmp == LastOf(head, nxt, Len(nxt))
       IN IF tmp = Null
          THEN [returns |-> FALSE, tests_ |-> head, next |-> nxt]
          ELSE [returns |-> TRUE, tests_ |-> head,
                next |-> [nxt EXCEPT ![tmp] = tc, ![tc] = head]]
RepositoryAdd(head, nxt, tc) ==
  IF head = Null
  THEN [returns |-> TRUE, tests_ |-> tc, next |-> nxt]
  ELSE LET tmp == LastOf(head, nxt, Len(nxt))
       IN IF tmp = Null
          THEN [returns |-> FALSE, tests_ |-> head, next |-> nxt]
          ELSE [returns |-> TRUE, tests_ |-> head,
                next |-> [nxt EXCEPT ![tmp] = tc]]

\* Test::next / Case::next
TestNextSkipsOne(nxt, u) == IF nxt[u] = Null THEN Null ELSE nxt[nxt[u]]
TestNext(nxt, u) == nxt[u]

(***************************************************************************)
(* The assertion macros and the catch handlers of Test::run.               *)
(***************************************************************************)
\* ASSERT_TRUE(expression) : `if (!(expression))`
AssertTrueFails(expr) == ~expr

\* ASSERT_TRUE(expression) : whether the macro executes `return;`
AssertTrueNeverReturns(expr) == FALSE
AssertTrueReturns(expr) == ~expr

\* ASSERT_FALSE(expression) : the condition under which it records a failure.
\* src/TestHarness.hpp defines it as ASSERT_TRUE(!(expression)),
\* src/cpput/TestHarness.hpp as `if ((expression))`
AssertFalseFailsLikeAssertTrue(v, expr) == AssertTrueFails(expr)
AssertFalseFails(v, expr) ==
  IF v = "cpput" THEN AssertTrueFails(~expr) ELSE expr

\* ASSERT_FALSE(expression) : #expression as handed to addFailure
AssertFalseText(v, expr) ==
  IF v = "cpput" THEN "!(" \o ExprText(expr) \o ")" ELSE ExprText(expr)

\* ASSERT_EQ(expected, actual) : `if (!((expected) == (actual)))`
AssertEqFails(expected, actual) == ~DoubleEq(expected, actual)

\* ASSERT_NEAR(expected, actual, epsilon) :
\*   double diff = expectedTmp - actualTmp;
\*   if ((diff > epsilon) || (-diff > epsilon))
AssertNearFailsOneSided(expected, actual, epsilon) ==
  DoubleGt(DoubleSub(expected, actual), epsilon)
AssertNearFails(expected, actual, epsilon) ==
  LET diff == DoubleSub(expected, actual)
  IN DoubleGt(diff, epsilon) \/ DoubleGt(DoubleNeg(diff), epsilon)

\* Result::addFailure<T,U>(filename, line, expected, actual) : ss.str()
ComparisonMessageActualFirst(expected, actual) ==
  "failed comparison, expected " \o DoubleText(actual)
    \o " got " \o DoubleText(expected) \o "\n"
ComparisonMessage(expected, actual) ==
  "failed comparison, expected " \o DoubleText(expected)
    \o " got " \o DoubleText(actual) \o "\n"

\* an assertion statement st compiled against header v: whether it records
\* a failure, the message it records, and whether it executes `return;`
AssertFails(v, st) ==
  CASE st.op = "ASSERT_TRUE" -> AssertTrueFails(st.expr)
    [] st.op = "ASSERT_FALSE" -> AssertFalseFails(v, st.expr)
    [] st.op = "ASSERT_EQ" -> AssertEqFails(st.expected, st.actual)
    [] st.op = "ASSERT_NEAR" ->
         AssertNearFails(st.expected, st.actual, st.epsilon)
AssertMessage(v, st) ==
  CASE st.op = "ASSERT_TRUE" -> ExprText(st.expr)
    [] st.op = "ASSERT_FALSE" -> AssertFalseText(v, st.expr)
    [] st.op = "ASSERT_EQ" -> ComparisonMessage(st.expected, st.actual)
    [] st.op = "ASSERT_NEAR" -> ComparisonMessage(st.expected, st.actual)
AssertReturns(v, st) ==
  IF st.op = "ASSERT_TRUE" THEN AssertTrueReturns(st.expr)
  ELSE AssertFails(v, st)

\* catch (const std::exception& e) : the message handed to addFailure
UnexpectedExceptionMessageBare(what) == what
UnexpectedExceptionMessage(what) == "Unexpected exception: " \o what

\* catch (...) : the message handed to addFailure
UnspecifiedExceptionMessage == "Unspecified exception!"

\* __LINE__ in the two handlers
CatchStdLine(v) == IF v = "cpput" THEN 283 ELSE 296
CatchAllLine(v) == IF v = "cpput" THEN 287 ELSE 300

(***************************************************************************)
(* main                                                                    *)
(***************************************************************************)
ArgLists == {<<>>, <<"--xml">>, <<"-v">>, <<"--xml", "-v">>}

\* CPPUT_TEST_MAIN : argc == 2 && std::string(argv[1]) == "--xml"
\* DECLARE_TEST_MAIN_FUNCTION : Runner::run(argc > 1)
UseXml(v, argv) ==
  IF v = "cpput"
  THEN Len(argv) + 1 = 2 /\ argv[1] = "--xml"
  ELSE Len(argv) + 1 > 1

(***************************************************************************)
(* Test::run / Case::run and the do_run the macros generate.               *)
(***************************************************************************)
\* a step of a unit, noted in the log
Step(s, e) == [s EXCEPT !.trace = Append(@, e)]

\* the body b of unit u from statement i on, with pass_ = pass: the sink and
\* pass_ it leaves, and the exception it throws (NoExc when it returns)
RECURSIVE RunBody(_, _, _, _, _)
RunBody(s, u, b, i, pass) ==
  IF i > Len(b)
  THEN [s |-> s, pass_ |-> pass, exc |-> NoExc]
  ELSE
    LET st == b[i]
        s1 == Step(s, [ev |-> "stmt", unit |-> u, index |-> i])
    IN CASE st.op \in {"ASSERT_TRUE", "ASSERT_FALSE", "ASSERT_EQ",
                        "ASSERT_NEAR"} ->
              LET failed == AssertFails(variant, st)
                  s2 == IF failed
                        THEN AddFailure(s1, TestFile, LineOf(u, i),
                                        AssertMessage(variant, st))
                        ELSE s1
                  pass2 == IF failed THEN AddFailurePass(pass) ELSE pass
              IN IF AssertReturns(variant, st)
                 THEN [s |-> s2, pass_ |-> pass2, exc |-> NoExc]
                 ELSE RunBody(s2, u, b, i + 1, pass2)
         [] st.op = "throw_std" ->
              [s |-> s1, pass_ |-> pass,
               exc |-> [thrown |-> "std", what |-> st.what]]
         [] st.op = "throw_other" ->
              [s |-> s1, pass_ |-> pass, exc |-> [thrown |-> "other"]]

\* do_run(testResult_) as TEST or TEST_F generates it: for TEST it is the
\* body; for TEST_F it builds the fixture object, calls the fixture's do_run,
\* which is the body, and the fixture object is destroyed when that returns
\* or throws
DoRun(s, u, b, m, pass) ==
  IF m = "TEST_F"
  THEN LET r == RunBody(Step(s, [ev |-> "fixture", unit |-> u]), u, b, 1, pass)
       IN [r EXCEPT !.s = Step(@, [ev |-> "fixture_end", unit |-> u])]
  ELSE RunBody(s, u, b, 1, pass)

\* catch (const std::exception& e) : the exceptions it handles
CatchesStd(e) == e.thrown = "std"

\* catch (...) : the exceptions it handles
CatchesNothing(e) == FALSE
CatchesAll(e) == e.thrown # "none"

\* Test::run(out) of unit u with body b, compiled from header v: the sink it
\* leaves and the exception that leaves it
TestRunResultInsideTry(s, u, b, m, v) ==
  LET s1 == ResultCtor(s, u)
      r == DoRun(Step(s1, [ev |-> "do_run", unit |-> u]), u, b, m, TRUE)
      s2 == ResultDtor(r.s, r.pass_)
  IN IF r.exc.thrown = "none" THEN [s |-> s2, exc |-> NoExc]
     ELSE IF CatchesStd(r.exc)
     THEN [s |-> AddFailure(s2, HeaderFile, CatchStdLine(v),
                            UnexpectedExceptionMessage(r.exc.what)),
           exc |-> NoExc]
     ELSE [s |-> AddFailure(s2, HeaderFile, CatchAllLine(v),
                            UnspecifiedExceptionMessage),
           exc |-> NoExc]
TestRun(s, u, b, m, v) ==
  LET s1 == ResultCtor(s, u)
      r == DoRun(Step(s1, [ev |-> "do_run", unit |-> u]), u, b, m, TRUE)
      h == IF r.exc.thrown = "none" THEN r
           ELSE IF CatchesStd(r.exc)
           THEN [s |-> AddFailure(r.s, HeaderFile, CatchStdLine(v),
                                  UnexpectedExceptionMessage(r.exc.what)),
                 pass_ |-> AddFailurePass(r.pass_),
                 exc |-> NoExc]
           ELSE IF CatchesAll(r.exc)
           THEN [s |-> AddFailure(r.s, HeaderFile, CatchAllLine(v),
                                  UnspecifiedExceptionMessage),
                 pass_ |-> AddFailurePass(r.pass_),
                 exc |-> NoExc]
           ELSE r
  IN [s |-> ResultDtor(h.s, h.pass_), exc |-> h.exc]

(***************************************************************************)
(* Initial state: the Repository singleton is empty, nothing has run.      *)
(***************************************************************************)
Init ==
  /\ variant \in {"cpput", "unit"}
  /\ macro \in {"TEST", "TEST_F"}
  /\ tests_ = Null
  /\ test_unit_next_ = <<>>
  /\ body = <<>>
  /\ dupAdd = FALSE
  /\ args = <<>>
  /\ pc = "static_init"
  /\ writer = NoWriter
  /\ c = Null
  /\ exc = NoExc
  /\ trace = <<>>
  /\ out = <<>>
  /\ ret = 0
  /\ first = NoRun

Sink == [w |-> writer, out |-> out, trace |-> trace]

(***************************************************************************)
(* Static initialisation: the constructor of a unit with body b.           *)
(***************************************************************************)
Register(b) ==
  /\ pc = "static_init"
  /\ Len(test_unit_next_) < MaxUnits
  /\ SumLen(body) + Len(b) <= MaxStmts
  /\ LET tc == Len(test_unit_next_) + 1
         r == RepositoryAdd(tests_, Append(test_unit_next_, Null), tc)
     IN /\ r.returns
        /\ tests_' = r.tests_
        /\ test_unit_next_' = r.next
  /\ body' = Append(body, b)
  /\ UNCHANGED <<variant, macro, dupAdd>>
  /\ UNCHANGED runVars

\* A direct call Repository::instance().add(tc) with a unit that its
\* constructor has registered already.
AddAgain(tc) ==
  /\ pc = "static_init"
  /\ LET r == RepositoryAdd(tests_, test_unit_next_, tc)
     IN /\ r.returns
        /\ tests_' = r.tests_
        /\ test_unit_next_' = r.next
  /\ dupAdd' = TRUE
  /\ UNCHANGED <<variant, macro, body>>
  /\ UNCHANGED runVars

(***************************************************************************)
(* main: builds the writer chosen by the arguments and enters              *)
(* runAllTests / Runner::do_run, which reads the head of the chain.        *)
(***************************************************************************)
Main(argv, g) ==
  /\ pc = "static_init"
  /\ args' = argv
  /\ IF UseXml(variant, argv)
     THEN /\ writer' = IF variant = "cpput" THEN XmlResultWriterCtor
                       ELSE XmlOutputterCtor(g)
          /\ (variant = "cpput" => g = 0)
          /\ out' = out \o XmlCtorOut
     ELSE /\ g = 0
          /\ writer' = IF variant = "cpput" THEN TextResultWriterCtor
                       ELSE TextOutputterCtor
          /\ out' = out
  /\ c' = tests_
  /\ pc' = "loop"
  /\ UNCHANGED <<variant, macro, exc, trace, ret, first>>
  /\ UNCHANGED registryVars

\* `while (c)` holds: c->run(writer); c = c->next().  An exception that
\* leaves Test::run leaves runAllTests and main too.
RunUnitConsuming ==
  /\ pc = "loop"
  /\ c # Null
  /\ \E r \in {TestRun(Sink, c, body[c], macro, variant)} :
        /\ writer' = r.s.w
        /\ out' = r.s.out
        /\ trace' = r.s.trace
        /\ exc' = r.exc
        /\ IF r.exc.thrown = "none"
           THEN c' = TestNext(test_unit_next_, c) /\ pc' = "loop"
           ELSE c' = c /\ pc' = "aborted"
  /\ tests_' = TestNext(test_unit_next_, c)
  /\ UNCHANGED <<variant, macro, args, ret, first>>
  /\ UNCHANGED <<test_unit_next_, body, dupAdd>>
RunUnit ==
  /\ pc = "loop"
  /\ c # Null
  /\ \E r \in {TestRun(Sink, c, body[c], macro, variant)} :
        /\ writer' = r.s.w
        /\ out' = r.s.out
        /\ trace' = r.s.trace
        /\ exc' = r.exc
        /\ IF r.exc.thrown = "none"
           THEN c' = TestNext(test_unit_next_, c) /\ pc' = "loop"
           ELSE c' = c /\ pc' = "aborted"
  /\ UNCHANGED <<variant, macro, args, ret, first>>
  /\ UNCHANGED registryVars

\* `while (c)` fails: return writer.getNumberOfFailures()
Return ==
  /\ pc = "loop"
  /\ c = Null
  /\ ret' = GetNumberOfFailures(writer)
  /\ pc' = "returned"
  /\ UNCHANGED <<variant, macro, args, writer, c, exc, trace, out, first>>
  /\ UNCHANGED registryVars

\* main returns: the writer goes out of scope and its destructor runs
MainExit ==
  /\ pc = "returned"
  /\ out' = out \o WDtorOut(writer)
  /\ pc' = "exited"
  /\ UNCHANGED <<variant, macro, args, writer, c, exc, trace, ret, first>>
  /\ UNCHANGED registryVars

\* A main that calls the Runner itself: Runner::run(xmlOutput), or
\* runAllTests on a writer it has just constructed (XML or text, g being
\* what the writer's uninitialised member holds).
RunFirst(xmlOutput, g) ==
  /\ pc = "static_init"
  /\ IF xmlOutput
     THEN /\ writer' = IF variant = "cpput" THEN XmlResultWriterCtor
                       ELSE XmlOutputterCtor(g)
          /\ (variant = "cpput" => g = 0)
          /\ out' = out \o XmlCtorOut
     ELSE /\ g = 0
          /\ writer' = IF variant = "cpput" THEN TextResultWriterCtor
                       ELSE TextOutputterCtor
          /\ out' = out
  /\ c' = tests_
  /\ pc' = "loop"
  /\ UNCHANGED <<variant, macro, args, exc, trace, ret, first>>
  /\ UNCHANGED registryVars

\* That main calls the Runner a second time, with a fresh writer: it has
\* kept what the first call returned, the first writer is destroyed, a
\* writer is constructed and runAllTests / Runner::do_run reads the head of
\* the chain again.  The log starts anew.
RunAgain(xmlOutput, g) ==
  /\ pc = "returned"
  /\ ~first.done
  /\ first' = [done |-> TRUE, ret |-> ret, trace |-> trace]
  /\ IF xmlOutput
     THEN /\ writer' = IF variant = "cpput" THEN XmlResultWriterCtor
                       ELSE XmlOutputterCtor(g)
          /\ (variant = "cpput" => g = 0)
          /\ out' = out \o WDtorOut(writer) \o XmlCtorOut
     ELSE /\ g = 0
          /\ writer' = IF variant = "cpput" THEN TextResultWriterCtor
                       ELSE TextOutputterCtor
          /\ out' = out \o WDtorOut(writer)
  /\ trace' = <<>>
  /\ c' = tests_
  /\ pc' = "loop"
  /\ UNCHANGED <<variant, macro, args, exc, ret>>
  /\ UNCHANGED registryVars

Bodies == SeqsUpTo(Stmts, MaxStmts)

RegisterAny == \E b \in Bodies : Register(b)
MainAny == \E argv \in ArgLists, g \in 0..MaxIndeterminate : Main(argv, g)
AddAgainAny == \E tc \in 1..Len(test_unit_next_) : AddAgain(tc)
RunFirstAny ==
  \E xmlOutput \in BOOLEAN, g \in 0..MaxIndeterminate : RunFirst(xmlOutput, g)
RunAgainAny ==
  \E xmlOutput \in BOOLEAN, g \in 0..MaxIndeterminate : RunAgain(xmlOutput, g)

Next ==
  \/ RegisterAny
  \/ MainAny
  \/ RunUnit
  \/ Return
  \/ MainExit

Spec == Init /\ [][Next]_vars

\* The registry alone, with Repository::add also called directly.
NextAdd ==
  \/ RegisterAny
  \/ AddAgainAny

SpecAdd == Init /\ [][NextAdd]_vars

\* The program whose main calls the Runner twice.
NextTwice ==
  \/ RegisterAny
  \/ RunFirstAny
  \/ RunUnit
  \/ Return
  \/ RunAgainAny
  \/ MainExit

SpecTwice == Init /\ [][NextTwice]_vars

(***************************************************************************)
(* The Runner's call to its return.  The units register themselves, the    *)
(* unit constructed last may also be handed to Repository::add directly,   *)
(* and a main calls the Runner on a text writer.  Once main has started, its thread keeps       *)
(* executing: the loop of runAllTests goes on while `while (c)` holds, and *)
(* returns when it fails.  A traversal that has run more units than are    *)
(* registered is not followed further.                                     *)
(***************************************************************************)
RunFirstText == RunFirst(FALSE, 0)

AddLastAgain ==
  /\ Len(test_unit_next_) > 0
  /\ AddAgain(Len(test_unit_next_))

RunUnitOfRun ==
  /\ Len(SelectSeq(trace, LAMBDA e : e.ev = "do_run")) <= Len(test_unit_next_)
  /\ RunUnit

NextRun ==
  \/ RegisterAny
  \/ AddLastAgain
  \/ RunFirstText
  \/ RunUnitOfRun
  \/ Return

SpecRun ==
  /\ Init
  /\ [][NextRun]_vars
  /\ WF_vars(RunUnitOfRun)
  /\ WF_vars(Return)

(***************************************************************************)
(* The assertion macros on their own: a test program of two units, each a  *)
(* single assertion followed by a statement that shows whether the body    *)
(* went on; the first assertion is any assertion over any operands, the    *)
(* second a boolean one.  The units have registered themselves.            *)
(***************************************************************************)
Follow == [op |-> "ASSERT_TRUE", expr |-> TRUE]

BoolAssertStmts == [op : {"ASSERT_TRUE", "ASSERT_FALSE"}, expr : BOOLEAN]

InitAssert ==
  /\ variant \in {"cpput", "unit"}
  /\ macro \in {"TEST", "TEST_F"}
  /\ \E s1 \in AssertStmts, s2 \in BoolAssertStmts :
       body = << <<s1, Follow>>, <<s2, Follow>> >>
  /\ LET r1 == RepositoryAdd(Null, <<Null>>, 1)
         r2 == RepositoryAdd(r1.tests_, Append(r1.next, Null), 2)
     IN /\ tests_ = r2.tests_
        /\ test_unit_next_ = r2.next
  /\ dupAdd = FALSE
  /\ args = <<>>
  /\ pc = "static_init"
  /\ writer = NoWriter
  /\ c = Null
  /\ exc = NoExc
  /\ trace = <<>>
  /\ out = <<>>
  /\ ret = 0
  /\ first = NoRun

NextAssert ==
  \/ MainAny
  \/ RunUnit
  \/ Return
  \/ MainExit

SpecAssert == InitAssert /\ [][NextAssert]_vars


(***************************************************************************)
(* Vocabulary of the properties.                                           *)
(***************************************************************************)
NumUnits == Len(test_unit_next_)

\* the units met by following the links from u, at most `fuel` of them
RECURSIVE ChainFrom(_, _, _)
ChainFrom(u, nxt, fuel) ==
  IF u = Null \/ fuel = 0 THEN <<>>
  ELSE <<u>> \o ChainFrom(nxt[u], nxt, fuel - 1)

\* the chain reachable from the Repository's head; one unit longer than the
\* number of units when the chain does not end
Chain == ChainFrom(tests_, test_unit_next_, NumUnits + 1)

\* the units in the order their constructors ran
RegistrationOrder == [i \in 1..NumUnits |-> i]

IsPrefix(s, t) == Len(s) <= Len(t) /\ s = SubSeq(t, 1, Len(s))

RunOver == pc \in {"returned", "exited"}

\* what the statements of body b do when run from statement i on: "pass", or
\* the way the body is left: "assert" (a failing assertion), "std", "other"
RECURSIVE OutcomeFrom(_, _)
OutcomeFrom(b, i) ==
  IF i > Len(b) THEN "pass"
  ELSE CASE b[i].op = "ASSERT_TRUE" ->
              IF b[i].expr THEN OutcomeFrom(b, i + 1) ELSE "assert"
         [] b[i].op = "throw_std" -> "std"
         [] b[i].op = "throw_other" -> "other"
Outcome(b) == OutcomeFrom(b, 1)

\* the index of the statement at which body b is left, Len(b) + 1 when it
\* runs to its end
RECURSIVE LeftAtFrom(_, _)
LeftAtFrom(b, i) ==
  IF i > Len(b) THEN i
  ELSE IF b[i].op = "ASSERT_TRUE" /\ b[i].expr THEN LeftAtFrom(b, i + 1)
  ELSE i
LeftAt(b) == LeftAtFrom(b, 1)

\* a log cut into blocks, a new block at every startTest
RECURSIVE BlocksOf(_)
BlocksOf(t) ==
  IF t = <<>> THEN <<>>
  ELSE LET e == t[Len(t)]
           bs == BlocksOf(SubSeq(t, 1, Len(t) - 1))
       IN IF e.ev = "startTest" \/ bs = <<>>
          THEN Append(bs, <<e>>)
          ELSE [bs EXCEPT ![Len(bs)] = Append(@, e)]

Blocks == BlocksOf(trace)

IsDoRun(e) == e.ev = "do_run"
IsStmt(e) == e.ev = "stmt"
IsFailure(e) == e.ev = "failure"
IsEndTest(e) == e.ev = "endTest"
IsCall(e) == e.ev \in {"startTest", "failure", "endTest"}

CountEv(es, kind) == Cardinality({i \in 1..Len(es) : es[i].ev = kind})

\* the units whose do_run was called, in order
Invoked ==
  LET d == SelectSeq(trace, IsDoRun) IN [i \in 1..Len(d) |-> d[i].unit]

\* the indices of the statements executed in block b, in order
StmtsIn(b) ==
  LET d == SelectSeq(b, IsStmt) IN [i \in 1..Len(d) |-> d[i].index]

\* the units of the chain after unit u have all been invoked after it
LaterUnitsRan(k, inv) ==
  \A u \in 1..NumUnits : u > inv[k] =>
    \E j \in 1..Len(inv) : j > k /\ inv[j] = u

(***************************************************************************)
(* C1.  One call of the Runner invokes the body of every registered unit   *)
(* exactly once, in registration order, whatever the outcome of the        *)
(* earlier units: at every moment the bodies invoked so far are the first  *)
(* units in registration order, each once, and when the Runner returns     *)
(* they are all of them.                                                   *)
(***************************************************************************)
C1_EachBodyOnceInRegistrationOrder ==
  LET inv == Invoked
  IN /\ IsPrefix(inv, RegistrationOrder)
     /\ (pc = "loop" => Len(inv) = (IF c = Null THEN NumUnits ELSE c - 1))
     /\ (RunOver => inv = RegistrationOrder)

\* a run over three units is over; the first was left by a failing
\* assertion, the second by an exception
C1_Witness ==
  /\ RunOver
  /\ Invoked = <<1, 2, 3>>
  /\ Outcome(body[1]) = "assert"
  /\ Outcome(body[2]) \in {"std", "other"}

(***************************************************************************)
(* C2.  A unit whose body throws (a std::exception or anything else) is    *)
(* reported by exactly one failure event, whose message is not empty; the  *)
(* exception does not leave Test::run; and the Runner's cursor then moves  *)
(* to the next unit, so that when the run is over every later unit has run *)
(* too.                                                                    *)
(***************************************************************************)
C2_ThrowIsOneFailureAndRunGoesOn ==
  LET bs == Blocks
      inv == Invoked
  IN /\ exc = NoExc
     /\ pc # "aborted"
     /\ Len(bs) = Len(inv)
     /\ \A k \in 1..Len(bs) :
          Outcome(body[inv[k]]) \in {"std", "other"} =>
            LET f == SelectSeq(bs[k], IsFailure)
            IN /\ Len(f) = 1
               /\ f[1].message # ""
               /\ (pc = "loop" /\ k = Len(inv) =>
                     c = test_unit_next_[inv[k]])
               /\ (RunOver => LaterUnitsRan(k, inv))

\* the first unit threw a std::exception, the second threw something else,
\* and the third unit ran after them
C2_Witness ==
  /\ RunOver
  /\ NumUnits = 3
  /\ Outcome(body[1]) = "std"
  /\ Outcome(body[2]) = "other"
  /\ Len(Invoked) = 3


(***************************************************************************)
(* C3.  Every execution of a unit gives the writer exactly one startTest   *)
(* event, before the body runs, and exactly one endTest event, after it,   *)
(* however the body was left (normal return, return after a failed         *)
(* assertion, exception): every block of the log is startTest of the unit, *)
(* the call of do_run, the steps of the body, and a single endTest last.   *)
(***************************************************************************)
C3_OneStartOneEndPerUnit ==
  LET bs == Blocks
      inv == Invoked
  IN /\ Len(bs) = Len(inv)
     /\ CountEv(trace, "startTest") = Len(inv)
     /\ CountEv(trace, "endTest") = Len(inv)
     /\ \A k \in 1..Len(bs) :
          LET b == bs[k]
          IN /\ Len(b) >= 3
             /\ b[1].ev = "startTest"
             /\ b[1].unit = inv[k]
             /\ b[2].ev = "do_run"
             /\ b[2].unit = inv[k]
             /\ b[Len(b)].ev = "endTest"
             /\ CountEv(b, "endTest") = 1
             /\ \A i \in 1..Len(b) :
                  b[i].ev = "stmt" =>
                    /\ b[i].unit = inv[k]
                    /\ 2 < i
                    /\ i < Len(b)

\* three units have ended: one returned normally, one returned after a
\* failed assertion, one threw
C3_Witness ==
  /\ RunOver
  /\ Len(Invoked) = 3
  /\ {Outcome(body[k]) : k \in 1..3} \in
       {{"pass", "assert", "std"}, {"pass", "assert", "other"}}
  /\ CountEv(trace, "endTest") = 3

(***************************************************************************)
(* C4.  When an assertion of a body fails, no statement after it in the    *)
(* same body is executed (so no later assertion records a failure), and    *)
(* only the current unit ends: the run continues with the next unit.  For  *)
(* units declared with TEST and with TEST_F.                               *)
(***************************************************************************)
C4_NothingAfterFailedAssertion ==
  LET bs == Blocks
      inv == Invoked
  IN /\ Len(bs) = Len(inv)
     /\ \A k \in 1..Len(bs) :
          LET b == body[inv[k]]
              ran == StmtsIn(bs[k])
          IN /\ \A i \in 1..Len(ran) : \A j \in 1..(ran[i] - 1) :
                  ~(b[j].op = "ASSERT_TRUE" /\ ~b[j].expr)
             /\ Outcome(b) = "assert" =>
                  /\ ran = [i \in 1..LeftAt(b) |-> i]
                  /\ Len(SelectSeq(bs[k], IsFailure)) = 1
                  /\ (pc = "loop" /\ k = Len(inv) =>
                        c = test_unit_next_[inv[k]])
                  /\ (RunOver => LaterUnitsRan(k, inv))

\* a TEST_F unit whose failing assertion is followed by another statement
\* has ended, and the unit after it has run
C4_Witness ==
  /\ macro = "TEST_F"
  /\ RunOver
  /\ NumUnits >= 2
  /\ Len(body[1]) = 2
  /\ Outcome(body[1]) = "assert"
  /\ LeftAt(body[1]) = 1
  /\ Len(Invoked) = NumUnits

(***************************************************************************)
(* C5.  The flag of a unit's endTest event is true exactly when no failure *)
(* event was recorded during that unit: a body that runs to its end        *)
(* without a failing assertion gives the writer startTest, endTest(true)   *)
(* and nothing else; a unit with a failure (assertion or caught exception) *)
(* gives endTest(false).                                                   *)
(***************************************************************************)
C5_PassedFlagIffNoFailure ==
  LET bs == Blocks
      inv == Invoked
  IN /\ Len(bs) = Len(inv)
     /\ \A k \in 1..Len(bs) :
          LET calls == SelectSeq(bs[k], IsCall)
              ends == SelectSeq(bs[k], IsEndTest)
              fails == SelectSeq(bs[k], IsFailure)
          IN /\ Len(ends) = 1
             /\ (ends[1].success <=> fails = <<>>)
             /\ (Outcome(body[inv[k]]) = "pass" =>
                   /\ Len(calls) = 2
                   /\ ends[1].success)
             /\ (Outcome(body[inv[k]]) # "pass" => ~ends[1].success)

\* a unit that passed, one that failed an assertion and one that threw have
\* all ended
C5_Witness ==
  /\ pc = "loop"
  /\ c = Null
  /\ Len(Invoked) = 3
  /\ Outcome(body[1]) = "pass"
  /\ Outcome(body[2]) = "assert"
  /\ Outcome(body[3]) \in {"std", "other"}


\* the units whose endTest event said "failed"
NumUnitsFailed ==
  Cardinality({i \in 1..Len(trace) :
                 trace[i].ev = "endTest" /\ ~trace[i].success})

(***************************************************************************)
(* C6.  The Runner returns the writer's failure count as read after the    *)
(* last unit has ended; the writer being fresh, that is the number of      *)
(* units of the run reported failed, and so 0 exactly when every unit      *)
(* passed.                                                                 *)
(***************************************************************************)
C6_ReturnsNumberOfFailedUnits ==
  RunOver =>
    /\ ret = GetNumberOfFailures(writer)
    /\ ret = NumUnitsFailed
    /\ (ret = 0 <=> \A u \in 1..NumUnits : Outcome(body[u]) = "pass")

(***************************************************************************)
(* C7.  For every writer of both headers, the failure count it reports is  *)
(* the number of failure events it has received since it was constructed;  *)
(* a writer just constructed reports 0.                                    *)
(***************************************************************************)
C7_FailureCountIsNumberOfFailureEvents ==
  writer.class # "none" =>
    GetNumberOfFailures(writer) = CountEv(trace, "failure")


\* the chain ends: following the links from the head reaches null
ChainEnds == Len(Chain) <= NumUnits

(***************************************************************************)
(* C8.  After any sequence of registrations of distinct units, each by its *)
(* own constructor, the chain reachable from the Repository's head holds   *)
(* exactly the registered units, each once, in the order they were         *)
(* registered; so a later registration leaves the order of the earlier     *)
(* units as it was.                                                        *)
(***************************************************************************)
C8_ChainIsRegistrationOrder ==
  /\ Chain = RegistrationOrder
  /\ (NumUnits = 0 <=> tests_ = Null)

\* three units are registered and the chain holds them in that order
C8_Witness ==
  /\ NumUnits = 3
  /\ Chain = <<1, 2, 3>>

(***************************************************************************)
(* C9.  As claimed: after any sequence of Repository::add calls, none      *)
(* rejected and none deduplicated, the chain reachable from the head is    *)
(* acyclic and ends in null.                                               *)
(***************************************************************************)
C9_ChainAcyclicAfterAnyAdds ==
  /\ ChainEnds
  /\ \A i, j \in 1..Len(Chain) : Chain[i] = Chain[j] => i = j

(***************************************************************************)
(* C9, amended.  After any sequence of Repository::add calls in which no   *)
(* unit is added a second time, the chain reachable from the head is       *)
(* acyclic and ends in null.                                               *)
(***************************************************************************)
C9_ChainAcyclicWithoutDuplicateAdds ==
  ~dupAdd => C9_ChainAcyclicAfterAnyAdds

\* three units, each added once by its constructor: the chain has ended
\* after the third
C9_Witness ==
  /\ ~dupAdd
  /\ NumUnits = 3
  /\ Len(Chain) = 3
  /\ test_unit_next_[Chain[3]] = Null


IsProgress(t) == t.by = "endTest"

\* the characters the endTest calls have written, in order
Progress ==
  LET d == SelectSeq(out, IsProgress) IN [i \in 1..Len(d) |-> d[i].text]

(***************************************************************************)
(* C10.  With a text writer, a run over N units writes exactly N progress  *)
(* characters, one per unit in execution order, the i-th being '.' if the  *)
(* i-th unit passed and 'F' if it failed.                                  *)
(***************************************************************************)
C10_OneProgressCharacterPerUnit ==
  IsText(writer) =>
    LET inv == Invoked
        prog == Progress
    IN /\ Len(prog) = Len(inv)
       /\ (RunOver => Len(prog) = NumUnits)
       /\ \A i \in 1..Len(prog) :
            prog[i] = (IF Outcome(body[inv[i]]) = "pass" THEN "." ELSE "F")

\* three units, the second of which fails, have given '.F.'
C10_Witness ==
  /\ IsText(writer)
  /\ RunOver
  /\ NumUnits = 3
  /\ Progress = <<".", "F", ".">>


(***************************************************************************)
(* C11.  When the text writer is destroyed at the end of a run, the last   *)
(* thing it writes is the summary: "All tests pass." exactly when its      *)
(* failure count is zero, otherwise "<failures> out of <total> tests       *)
(* failed." with <failures> the number of failure events it received and   *)
(* <total> the number of startTest events it received, which is the number *)
(* of units run.                                                           *)
(***************************************************************************)
C11_TextSummaryOnDestruction ==
  (pc = "exited" /\ IsText(writer)) =>
    LET last == out[Len(out)]
        failures == CountEv(trace, "failure")
        total == CountEv(trace, "startTest")
        passText == {"All tests pass.\n", "\nAll tests pass.\n"}
        failText == "\n" \o ToString(failures) \o " out of "
                      \o ToString(total) \o " tests failed.\n"
    IN /\ last.by = "dtor"
       /\ failures = GetNumberOfFailures(writer)
       /\ total = NumUnits
       /\ (last.text \in passText <=> failures = 0)
       /\ (failures # 0 => last.text = failText)

\* a text writer that saw one of three units fail has been destroyed
C11_Witness ==
  /\ pc = "exited"
  /\ IsText(writer)
  /\ NumUnits = 3
  /\ out[Len(out)].text = "\n1 out of 3 tests failed.\n"


\* std::cout cut after every progress character
RECURSIVE OutSegmentsOf(_)
OutSegmentsOf(o) ==
  IF o = <<>> THEN <<>>
  ELSE LET e == o[Len(o)]
           segs == OutSegmentsOf(SubSeq(o, 1, Len(o) - 1))
       IN IF segs = <<>> THEN << <<e>> >>
          ELSE LET prev == segs[Len(segs)]
               IN IF IsProgress(prev[Len(prev)])
                  THEN Append(segs, <<e>>)
                  ELSE [segs EXCEPT ![Len(segs)] = Append(@, e)]

\* the line of a failure event as the claim words it
FailureLineText(e) ==
  "Failure: " \o e.filename \o ", line " \o ToString(e.line) \o ": "
    \o e.message \o "\n"

(***************************************************************************)
(* C12.  A text writer writes the line "Failure: <file>, line <line>:      *)
(* <message>" when it receives the failure event: what is written between  *)
(* the progress character of the previous unit and the progress character  *)
(* of a unit is exactly the failure lines of that unit, so every failure   *)
(* line precedes the progress character of its unit and all output of      *)
(* later units.                                                            *)
(***************************************************************************)
C12_FailureLineWrittenAtFailure ==
  IsText(writer) =>
    LET bs == Blocks
        segs == OutSegmentsOf(out)
    IN \A k \in 1..Len(bs) :
         /\ Len(segs) >= k
         /\ LET f == SelectSeq(bs[k], IsFailure)
                seg == segs[k]
            IN /\ Len(seg) = Len(f) + 1
               /\ IsProgress(seg[Len(seg)])
               /\ \A i \in 1..Len(f) : seg[i].text = FailureLineText(f[i])


\* a part of the document cut into elements, a new one at every token that
\* startTest wrote
RECURSIVE XmlElementsOf(_)
XmlElementsOf(o) ==
  IF o = <<>> THEN <<>>
  ELSE LET e == o[Len(o)]
           els == XmlElementsOf(SubSeq(o, 1, Len(o) - 1))
       IN IF e.by = "startTest" \/ els = <<>>
          THEN Append(els, <<e>>)
          ELSE [els EXCEPT ![Len(els)] = Append(@, e)]

\* the end of the time attribute and of the start tag, and a failure
\* element with the record of failure event e in it, with or without a
\* type attribute
FailureElementTexts(e) ==
  LET content == e.message \o " in " \o e.filename \o ", line "
                   \o ToString(e.line) \o "</failure>\n"
  IN { ">\n    <failure>" \o content,
       ">\n    <failure type=\"Failure\">" \o content }

CountText(o, text) == Cardinality({i \in 1..Len(o) : o[i].text = text})

(***************************************************************************)
(* C13.  With an XML writer, a complete run (construction, N units,        *)
(* destruction) writes the XML declaration, one <testsuite> start tag and, *)
(* last, one </testsuite> end tag; between them exactly N testcase         *)
(* elements, in execution order.  The element of a passed unit is the      *)
(* start of the tag, the value and closing quote of the time attribute,    *)
(* and "/>".  The element of a failed unit is the start of the tag, the    *)
(* value and closing quote of the time attribute, the end of the start tag *)
(* with exactly one failure element, and one </testcase> end tag.          *)
(***************************************************************************)
C13_XmlDocumentWellFormed ==
  (pc = "exited" /\ IsXml(writer)) =>
    LET bs == Blocks
        inv == Invoked
        els == XmlElementsOf(SubSeq(out, 3, Len(out) - 1))
    IN /\ Len(out) >= 3
       /\ out[2].text = "<testsuite>\n"
       /\ out[Len(out)].text = "</testsuite>\n"
       /\ CountText(out, "<testsuite>\n") = 1
       /\ CountText(out, "</testsuite>\n") = 1
       /\ Len(els) = NumUnits
       /\ Len(bs) = NumUnits
       /\ \A k \in 1..Len(els) :
            LET el == els[k]
                f == SelectSeq(bs[k], IsFailure)
                passed == bs[k][Len(bs[k])].success
            IN /\ Len(el) >= 3
               /\ el[1].text = TestcaseOpenText(inv[k])
               /\ el[2].text = ElapsedText \o "\""
               /\ passed =>
                    /\ Len(el) = 3
                    /\ el[3].text = "/>\n"
               /\ ~passed =>
                    /\ Len(el) = 4
                    /\ Len(f) = 1
                    /\ el[3].text \in FailureElementTexts(f[1])
                    /\ el[4].text = "  </testcase>\n"

\* the document of a run over three units, the second of which failed, is
\* complete
C13_Witness ==
  /\ pc = "exited"
  /\ IsXml(writer)
  /\ NumUnits = 3
  /\ Len(out) = 2 + 3 + 4 + 3 + 1
  /\ out[9].text = "  </testcase>\n"


(***************************************************************************)
(* C14.  main builds the XML writer exactly when the program was started   *)
(* with "--xml" as its only argument, and the text writer for every other  *)
(* argument list; either way it runs every registered unit once and its    *)
(* exit status is the value returned by the Runner, the number of          *)
(* failures, which is 0 exactly when every unit passed.                    *)
(***************************************************************************)
C14_XmlExactlyForTheFlag ==
  /\ writer.class # "none" => (IsXml(writer) <=> args = <<"--xml">>)
  /\ RunOver =>
       /\ Invoked = RegistrationOrder
       /\ ret = CountEv(trace, "failure")
       /\ (ret = 0 <=> \A u \in 1..NumUnits : Outcome(body[u]) = "pass")


\* the success flags of the endTest events of a log, in order
Results(t) ==
  LET d == SelectSeq(t, IsEndTest) IN [i \in 1..Len(d) |-> d[i].success]

(***************************************************************************)
(* C15.  Running the same registered units twice, each time against a      *)
(* fresh writer, gives the same returned failure count and the same        *)
(* sequence of per-unit pass/fail results in both runs.                    *)
(***************************************************************************)
C15_SecondRunSameAsFirst ==
  (first.done /\ RunOver) =>
    /\ ret = first.ret
    /\ Results(trace) = Results(first.trace)


\* the failure events of block b of the log, whether the i-th statement of
\* the body was executed in it, and the flag of its endTest
FailuresOf(b) == SelectSeq(b, IsFailure)
RanStmt(b, i) == \E j \in 1..Len(b) : b[j].ev = "stmt" /\ b[j].index = i
EndFlagOf(b) == b[Len(b)].success

\* the unit of block b went through its assertion without a failure and on
\* to the next statement / recorded one failure and ended at the assertion
WentOn(b) == FailuresOf(b) = <<>> /\ RanStmt(b, 2) /\ EndFlagOf(b)
FailedAt(b) == Len(FailuresOf(b)) = 1 /\ ~RanStmt(b, 2) /\ ~EndFlagOf(b)

Abs(n) == IF n < 0 THEN 0 - n ELSE n

(***************************************************************************)
(* C16.  ASSERT_NEAR(expected, actual, epsilon) over numbers records no    *)
(* failure, and the body goes on, when |expected - actual| <= epsilon,     *)
(* the boundary |expected - actual| = epsilon included, for either sign of *)
(* the difference; it records a failure and ends the unit when             *)
(* |expected - actual| > epsilon.                                          *)
(***************************************************************************)
C16_AssertNearBoundary ==
  LET bs == Blocks
  IN \A k \in 1..Len(bs) :
    LET st == body[bs[k][1].unit][1]
    IN (st.op = "ASSERT_NEAR" /\ ~st.expected.nan /\ ~st.actual.nan
          /\ ~st.epsilon.nan) =>
         LET dist == Abs(st.expected.v - st.actual.v)
         IN /\ dist <= st.epsilon.v => WentOn(bs[k])
            /\ dist > st.epsilon.v => FailedAt(bs[k])

\* ASSERT_NEAR has passed on the boundary, with expected below actual
C16_Witness ==
  /\ RunOver
  /\ body[1][1].op = "ASSERT_NEAR"
  /\ ~body[1][1].expected.nan /\ ~body[1][1].actual.nan
  /\ ~body[1][1].epsilon.nan
  /\ body[1][1].expected.v - body[1][1].actual.v = 0 - body[1][1].epsilon.v
  /\ body[1][1].epsilon.v > 0
  /\ Len(Blocks) = 2
  /\ WentOn(Blocks[1])


\* message m contains the text of x and, after it, the text of y
Affixes == {"", "failed comparison, expected ", " got ", "\n"}
ContainsInOrder(m, x, y) ==
  \E pre \in Affixes, mid \in Affixes, post \in Affixes :
    m = pre \o DoubleText(x) \o mid \o DoubleText(y) \o post

\* what the claim says of ASSERT_EQ(X, Y) when X and Y are different values
AssertEqOfDifferentValues(b, st) ==
  st.expected # st.actual =>
    /\ FailedAt(b)
    /\ ContainsInOrder(FailuresOf(b)[1].message, st.expected, st.actual)

(***************************************************************************)
(* C17.  As claimed: ASSERT_EQ(X, X) never records a failure, for any      *)
(* value X that supports equality comparison; ASSERT_EQ(X, Y) with X and Y *)
(* different records exactly one failure, whose message holds the text of  *)
(* both values, the expected one first.                                    *)
(***************************************************************************)
C17_AssertEqReflexive ==
  LET bs == Blocks
  IN \A k \in 1..Len(bs) :
    LET st == body[bs[k][1].unit][1]
    IN st.op = "ASSERT_EQ" =>
         /\ st.expected = st.actual => WentOn(bs[k])
         /\ AssertEqOfDifferentValues(bs[k], st)

(***************************************************************************)
(* C17, amended.  ASSERT_EQ(X, X) never records a failure, for any value X *)
(* that compares equal to itself (X == X holds, which it does not for a    *)
(* floating-point NaN); ASSERT_EQ(X, Y) with X and Y different records     *)
(* exactly one failure, whose message holds the text of both values, the   *)
(* expected one first.                                                     *)
(***************************************************************************)
C17_AssertEqReflexiveWhereEqualityIs ==
  LET bs == Blocks
  IN \A k \in 1..Len(bs) :
    LET st == body[bs[k][1].unit][1]
    IN st.op = "ASSERT_EQ" =>
         /\ (st.expected = st.actual /\ DoubleEq(st.expected, st.expected))
              => WentOn(bs[k])
         /\ AssertEqOfDifferentValues(bs[k], st)

\* ASSERT_EQ of a number with itself has passed in the first unit
C17_Witness ==
  /\ RunOver
  /\ body[1][1].op = "ASSERT_EQ"
  /\ body[1][1].expected = body[1][1].actual
  /\ ~body[1][1].expected.nan
  /\ WentOn(Blocks[1])


(***************************************************************************)
(* C18.  For every boolean expression e, in both headers: ASSERT_TRUE(e)   *)
(* records a failure exactly when e is false and ASSERT_FALSE(e) records a *)
(* failure exactly when e is true; so of ASSERT_TRUE(e) and                *)
(* ASSERT_FALSE(e), each in a unit of its own, exactly one fails.          *)
(***************************************************************************)
C18_AssertTrueAndAssertFalseAreOpposite ==
  LET bs == Blocks
  IN /\ \A k \in 1..Len(bs) :
          LET st == body[bs[k][1].unit][1]
          IN /\ st.op = "ASSERT_TRUE" =>
                  IF st.expr THEN WentOn(bs[k]) ELSE FailedAt(bs[k])
             /\ st.op = "ASSERT_FALSE" =>
                  IF st.expr THEN FailedAt(bs[k]) ELSE WentOn(bs[k])
     /\ (/\ Len(bs) = 2
         /\ {body[1][1].op, body[2][1].op} = {"ASSERT_TRUE", "ASSERT_FALSE"}
         /\ body[1][1].expr = body[2][1].expr)
          => (FailuresOf(bs[1]) = <<>>) # (FailuresOf(bs[2]) = <<>>)

\* ASSERT_FALSE(true) has failed in the first unit and ASSERT_TRUE(true) has
\* passed in the second, with the header that defines ASSERT_FALSE by
\* ASSERT_TRUE
C18_Witness ==
  /\ variant = "cpput"
  /\ RunOver
  /\ body[1][1] = [op |-> "ASSERT_FALSE", expr |-> TRUE]
  /\ body[2][1] = [op |-> "ASSERT_TRUE", expr |-> TRUE]
  /\ FailedAt(Blocks[1])
  /\ WentOn(Blocks[2])


\* failure event e was caused by unit u: it names a failing assertion of
\* the body of u, or a handler of Test::run while the body of u throws
CausedBy(e, u) ==
  IF e.filename = TestFile
  THEN \E i \in 1..Len(body[u]) :
         /\ e.line = LineOf(u, i)
         /\ body[u][i].op = "ASSERT_TRUE"
         /\ ~body[u][i].expr
  ELSE /\ e.filename = HeaderFile
       /\ Outcome(body[u]) \in {"std", "other"}

(***************************************************************************)
(* C19.  Over a whole run, the events the writer receives are a            *)
(* concatenation of per-unit blocks startTest, zero or more failure        *)
(* events, endTest: a failure event lies between the startTest and the     *)
(* endTest of the unit that caused it, and the startTest of a unit comes   *)
(* only after the endTest of the unit before it, also when a body throws.  *)
(***************************************************************************)
C19_EventsArePerUnitBlocks ==
  LET bs == Blocks
  IN \A k \in 1..Len(bs) :
       LET b == bs[k]
           calls == SelectSeq(b, IsCall)
       IN /\ b[1].ev = "startTest"
          /\ Len(calls) >= 2
          /\ calls[Len(calls)].ev = "endTest"
          /\ b[Len(b)].ev = "endTest"
          /\ \A i \in 2..(Len(calls) - 1) :
               /\ calls[i].ev = "failure"
               /\ CausedBy(calls[i], b[1].unit)

\* a unit that threw lies between a unit that failed an assertion and a
\* unit that passed, and the run is over
C19_Witness ==
  /\ RunOver
  /\ NumUnits = 3
  /\ Outcome(body[1]) = "assert"
  /\ Outcome(body[2]) \in {"std", "other"}
  /\ Outcome(body[3]) = "pass"
  /\ Len(SelectSeq(trace, IsCall)) = 3 + 3 + 2


\* the units whose do_run was called in log t, in order
InvokedIn(t) ==
  LET d == SelectSeq(t, IsDoRun) IN [i \in 1..Len(d) |-> d[i].unit]

(***************************************************************************)
(* C20.  The Runner's traversal only reads the Repository: once main has   *)
(* started, no step changes the head or the next link of any unit; so a    *)
(* second traversal, started from the stored head, visits the units the    *)
(* first one visited, in the same order.                                   *)
(***************************************************************************)
C20_TraversalLeavesRegistryUnchanged ==
  /\ [][pc # "static_init" =>
         (tests_' = tests_ /\ test_unit_next_' = test_unit_next_)]_vars
  /\ [](first.done =>
         /\ IsPrefix(InvokedIn(trace), InvokedIn(first.trace))
         /\ (RunOver => InvokedIn(trace) = InvokedIn(first.trace)))

\* a second traversal of three units is over
C20_Witness ==
  /\ first.done
  /\ RunOver
  /\ InvokedIn(first.trace) = <<1, 2, 3>>
  /\ InvokedIn(trace) = <<1, 2, 3>>
  /\ Chain = <<1, 2, 3>>


\* the blocks of a log that hold a failure event
NumBlocksWithFailure(bs) ==
  Cardinality({k \in 1..Len(bs) : SelectSeq(bs[k], IsFailure) # <<>>})

(***************************************************************************)
(* C21.  In a run whose bodies record failures through the assertion       *)
(* macros or a caught exception only, every unit gives at most one failure *)
(* event; so the writer's failure count is the number of units reported    *)
(* failed, and at every point of the run (after every event the writer     *)
(* has received) the failures so far are as many as the units with a       *)
(* failure so far and no more than the units started so far.               *)
(***************************************************************************)
C21_AtMostOneFailurePerUnit ==
  LET bs == Blocks
  IN /\ \A k \in 1..Len(bs) : Len(SelectSeq(bs[k], IsFailure)) <= 1
     /\ writer.class # "none" =>
          /\ GetNumberOfFailures(writer) = NumUnitsFailed
          /\ GetNumberOfFailures(writer) <= CountEv(trace, "startTest")
     /\ \A n \in 0..Len(trace) :
          LET sofar == SubSeq(trace, 1, n)
          IN /\ CountEv(sofar, "failure") = NumBlocksWithFailure(BlocksOf(sofar))
             /\ CountEv(sofar, "failure") <= CountEv(sofar, "startTest")


(***************************************************************************)
(* C22.  As claimed: every body terminating (by returning or by            *)
(* throwing), a run of the Runner never aborts, runs no more units than    *)
(* are registered, and eventually returns, and it returns after the        *)
(* endTest of the last registered unit.                                    *)
(***************************************************************************)
C22_RunTerminates ==
  /\ [](pc # "aborted")
  /\ [](Len(InvokedIn(trace)) <= NumUnits)
  /\ [](pc = "returned" =>
         /\ InvokedIn(trace) = RegistrationOrder
         /\ (NumUnits > 0 => trace[Len(trace)].ev = "endTest"))
  /\ ((pc = "loop") ~> (pc = "returned"))

(***************************************************************************)
(* C22, amended.  Every body terminating (by returning or by throwing) and *)
(* no unit having been added to the Repository a second time, a run of the *)
(* Runner never aborts, runs no more units than are registered, and        *)
(* eventually returns, and it returns after the endTest of the last        *)
(* registered unit.                                                        *)
(***************************************************************************)
C22_RunTerminatesWithoutDuplicateAdds ==
  /\ [](pc # "aborted")
  /\ [](~dupAdd => Len(InvokedIn(trace)) <= NumUnits)
  /\ []((~dupAdd /\ pc = "returned") =>
         /\ InvokedIn(trace) = RegistrationOrder
         /\ (NumUnits > 0 => trace[Len(trace)].ev = "endTest"))
  /\ ((~dupAdd /\ pc = "loop") ~> (pc = "returned"))

\* the Runner has returned from a run over three units, each added once,
\* of which one threw
C22_Witness ==
  /\ ~dupAdd
  /\ pc = "returned"
  /\ InvokedIn(trace) = <<1, 2, 3>>
  /\ \E u \in 1..3 : Outcome(body[u]) \in {"std", "other"}
  /\ trace[Len(trace)].ev = "endTest"

====
